---- MODULE Spec2Model ----
(***************************************************************************)
(* Model of src/flix.py: the SearchResult.relevance property, the retrying *)
(* request executor FlixBusScraper._make_request, the endpoint adapters    *)
(* built on it, suggest_city / get_best_match and the city-directory       *)
(* scrape.                                                                 *)
(*                                                                         *)
(* Relevance values are kept in hundredths (relevance 1.0 is 100), scores  *)
(* are whole points, so score / 100 is exact; binary floating-point        *)
(* rounding is not modelled.  A Station list is represented by its length, *)
(* the only thing the code reads of it after parsing.  An item of an       *)
(* autocomplete response is identified by its position in the response.    *)
(***************************************************************************)
EXTENDS Integers, Sequences, FiniteSets, TLC

VARIABLES
    pc,        \* position of the one synchronous call chain
    op,        \* public operation being executed
    arg,       \* its argument (the letter of get_cities_by_letter)
    endpoint,  \* endpoint handed to _make_request
    gets,      \* HTTP GETs issued by the call
    sleeps,    \* durations of the backoff waits of the call, in order
    attempts,  \* outcome class of every attempt of the call, in order
    last,      \* raw transport outcome of the latest GET
    response,  \* value returned by _make_request
    ret,       \* what the caller of the public operation observes
    results,   \* SearchResult objects whose relevance is read
    rel,       \* relevance read of results[i]
    seen       \* indices i whose relevance has been read

vars == <<pc, op, arg, endpoint, gets, sleeps, attempts, last, response, ret,
          results, rel, seen>>

----------------------------------------------------------------------------
(* Bounds *)
MaxStations == 5
MaxLen == 3
MaxSections == 2

(* Program constants *)
MaxAttempts == 3
WaitMultiplier == 1
WaitMin == 4
WaitMax == 10
FlixbusBonus == 20
TrainBonus == 10
StationUnit == 10
StationCap == 30
RelevanceCap == 100

None == [isNone |-> TRUE]

Min(a, b) == IF a <= b THEN a ELSE b

----------------------------------------------------------------------------
(* SearchResult.relevance *)

Scores == {-50, 0, 50, 80, 95, 150}

SearchResults ==
    [score : Scores, stations : 0..MaxStations,
     has_train_station : BOOLEAN, is_flixbus_city : BOOLEAN]

station_bonus_uncapped(r) == r.stations * StationUnit

station_bonus(r) == Min(r.stations * StationUnit, StationCap)

flixbus_bonus_as_station_cap(r) == IF r.is_flixbus_city THEN StationCap ELSE 0

flixbus_bonus(r) == IF r.is_flixbus_city THEN FlixbusBonus ELSE 0

train_bonus(r) == IF r.has_train_station THEN TrainBonus ELSE 0

relevance(r) ==
    Min(r.score + flixbus_bonus(r) + station_bonus(r) + train_bonus(r),
        RelevanceCap)

----------------------------------------------------------------------------
NoOutcome == [kind |-> "none", status |-> 0, json |-> FALSE, body |-> <<>>]
NoRet == [kind |-> "none", value |-> <<>>, error |-> ""]

IdlePipeline ==
    /\ pc = "idle"
    /\ op = "none"
    /\ arg = ""
    /\ endpoint = ""
    /\ gets = 0
    /\ sleeps = <<>>
    /\ attempts = <<>>
    /\ last = NoOutcome
    /\ response = <<>>
    /\ ret = NoRet

pipelineVars == <<pc, op, arg, endpoint, gets, sleeps, attempts, last, response, ret>>
relVars == <<results, rel, seen>>

(* Two SearchResult objects are constructed; nothing has been read yet. *)
InitRel ==
    /\ IdlePipeline
    /\ results \in [1..2 -> SearchResults]
    /\ rel = [i \in 1..2 |-> 0]
    /\ seen = {}

(* Reading the relevance property of one of the objects. *)
ReadRelevance ==
    \E i \in 1..2 :
        /\ i \notin seen
        /\ rel' = [rel EXCEPT ![i] = relevance(results[i])]
        /\ seen' = seen \cup {i}
        /\ UNCHANGED <<results, pipelineVars>>

NextRel == ReadRelevance

SpecRel == InitRel /\ [][NextRel]_vars

----------------------------------------------------------------------------
(* The transport: what one HTTP GET can produce *)

Statuses == {100, 200, 304, 404, 503}

(* Raw records of an autocomplete response.  A key the record lacks is a   *)
(* key absent from the JSON object; "score" stands for the required keys.  *)
Items ==
    << [score |-> 50, has_train_station |-> FALSE, is_flixbus_city |-> FALSE],
       [score |-> 30, stations |-> 2, has_train_station |-> FALSE, is_flixbus_city |-> FALSE],
       [score |-> 80, stations |-> 2, has_train_station |-> TRUE, is_flixbus_city |-> TRUE],
       [stations |-> 1, has_train_station |-> FALSE, is_flixbus_city |-> FALSE] >>

SeqsUpTo(S, n) == UNION {[1..k -> S] : k \in 0..n}

(* an autocomplete response: a list of raw records, named by index in Items *)
Payloads == SeqsUpTo(1..Len(Items), MaxLen)

(* the JSON objects the listing, trip and analytics endpoints answer with *)
RawJson == {[count |-> 0], [count |-> 1]}

(* sections of the /bus page: heading letter (absent when the h3 is        *)
(* missing) and, per list item, whether it holds an anchor                 *)
Sections ==
    << [title |-> "A", items |-> <<TRUE>>],
       [title |-> "a", items |-> <<TRUE, FALSE>>],
       [title |-> "B", items |-> <<>>],
       [items |-> <<TRUE>>] >>

Pages == SeqsUpTo(1..Len(Sections), MaxSections)

Letters == {"a", "B"}

upper(l) == IF l = "a" THEN "A" ELSE IF l = "b" THEN "B" ELSE l

RawOps == {"get_cities", "get_reachable_cities", "search_trips", "get_search_analytics"}
RankOps == {"suggest_city", "get_best_match"}
ScrapeOps == {"get_cities_by_letter", "get_unique_city_letters"}

JsonBodies(o) == IF o \in RankOps THEN Payloads ELSE RawJson

Outcomes(o) ==
    {[kind |-> "conn", status |-> 0, json |-> FALSE, body |-> <<>>]}
    \cup {[kind |-> "http", status |-> st, json |-> FALSE, body |-> <<>>] :
             st \in Statuses}
    \cup {[kind |-> "http", status |-> st, json |-> TRUE, body |-> b] :
             st \in Statuses, b \in JsonBodies(o)}

ScrapeOutcomes ==
    {[kind |-> "conn", status |-> 0, json |-> FALSE, body |-> <<>>]}
    \cup {[kind |-> "http", status |-> st, json |-> FALSE, body |-> pg] :
             st \in Statuses, pg \in Pages}

----------------------------------------------------------------------------
(* FlixBusScraper._make_request *)

(* response.raise_for_status() *)
raise_for_status_non_2xx(o) == ~(200 <= o.status /\ o.status < 300)

raise_for_status(o) == 400 <= o.status /\ o.status < 600

(* one run of the decorated function body: "ok" when it returns            *)
(* response.json(), otherwise the class of the exception it raises         *)
attempt_class(o) ==
    IF o.kind = "conn" \/ raise_for_status(o) THEN "transport"
    ELSE IF ~o.json THEN "decode"
    ELSE "ok"

exception_of(class) ==
    IF class = "transport" THEN "RequestException" ELSE "JSONDecodeError"

(* stop_after_attempt(3) *)
stop_after_attempt_4(n) == n >= MaxAttempts + 1

stop_after_attempt_2(n) == n >= MaxAttempts - 1

stop_after_attempt(n) == n >= MaxAttempts

wait_exponential_no_min(n) == Min(WaitMultiplier * 2 ^ (n - 1), WaitMax)

(* wait_exponential(multiplier=1, min=4, max=10) after failed attempt n *)
wait_exponential(n) ==
    LET exp == WaitMultiplier * 2 ^ (n - 1)
        capped == Min(exp, WaitMax)
    IN  IF capped >= WaitMin THEN capped ELSE WaitMin

(* the retry decorator gives up: reraise is left at its default, so the    *)
(* caller gets the decorator's RetryError wrapping the last exception      *)
retry_error(class) == "RetryError"

Value(v) == [kind |-> "value", value |-> v, error |-> ""]
Error(e) == [kind |-> "error", value |-> <<>>, error |-> e]

MakeRequestAttempt ==
    /\ pc = "attempt"
    /\ \E o \in Outcomes(op) :
         LET class == attempt_class(o) IN
         /\ gets' = gets + 1
         /\ last' = o
         /\ attempts' = Append(attempts, class)
         /\ IF class = "ok"
            THEN /\ response' = o.body
                 /\ pc' = "returned"
                 /\ ret' = ret
            ELSE IF stop_after_attempt(Len(attempts) + 1)
            THEN /\ ret' = Error(retry_error(class))
                 /\ pc' = "done"
                 /\ response' = response
            ELSE /\ pc' = "wait"
                 /\ UNCHANGED <<response, ret>>
    /\ UNCHANGED <<op, arg, endpoint, sleeps, relVars>>

Backoff ==
    /\ pc = "wait"
    /\ sleeps' = Append(sleeps, wait_exponential(Len(attempts)))
    /\ pc' = "attempt"
    /\ UNCHANGED <<op, arg, endpoint, gets, attempts, last, response, ret, relVars>>

----------------------------------------------------------------------------
(* Endpoint adapters over _make_request *)

Call(o, a, ep, start) ==
    /\ pc = "idle"
    /\ op' = o
    /\ arg' = a
    /\ endpoint' = ep
    /\ pc' = start
    /\ UNCHANGED <<gets, sleeps, attempts, last, response, ret, relVars>>

get_cities == Call("get_cities", "", "cms/cities", "attempt")

get_reachable_cities ==
    Call("get_reachable_cities", "", "cms/cities/{city_id}/reachable", "attempt")

search_trips == Call("search_trips", "", "search/service/v4/search", "attempt")

get_search_analytics ==
    Call("get_search_analytics", "", "search/service/v4/analytics", "attempt")

suggest_city == Call("suggest_city", "", "search/autocomplete/cities", "attempt")

get_best_match == Call("get_best_match", "", "search/autocomplete/cities", "attempt")

get_cities_by_letter ==
    \E l \in Letters : Call("get_cities_by_letter", l, "bus", "scrape")

get_unique_city_letters == Call("get_unique_city_letters", "", "bus", "scrape")

Finish(r) ==
    /\ ret' = r
    /\ pc' = "done"
    /\ UNCHANGED <<op, arg, endpoint, gets, sleeps, attempts, last, response, relVars>>

(* return self._make_request(...) of the four raw adapters *)
ReturnJson ==
    /\ pc = "returned"
    /\ op \in RawOps
    /\ Finish(Value(response))

----------------------------------------------------------------------------
(* suggest_city and get_best_match *)

RequiredKeys == {"score", "has_train_station", "is_flixbus_city"}

Complete(item) == RequiredKeys \subseteq DOMAIN item

(* the SearchResult built from the record at position i of the response *)
ParseItem(resp, i) ==
    LET item == Items[resp[i]] IN
    [id |-> i,
     score |-> item.score,
     stations |-> IF "stations" \in DOMAIN item THEN item.stations ELSE 0,
     has_train_station |-> item.has_train_station,
     is_flixbus_city |-> item.is_flixbus_city]

(* list.sort(key=relevance, reverse=True): stable, descending *)
RECURSIVE InsertAscending(_, _)
InsertAscending(sorted, r) ==
    IF sorted = <<>> THEN <<r>>
    ELSE IF relevance(Head(sorted)) <= relevance(r)
         THEN <<Head(sorted)>> \o InsertAscending(Tail(sorted), r)
         ELSE <<r>> \o sorted

RECURSIVE InsertDescending(_, _)
InsertDescending(sorted, r) ==
    IF sorted = <<>> THEN <<r>>
    ELSE IF relevance(Head(sorted)) >= relevance(r)
         THEN <<Head(sorted)>> \o InsertDescending(Tail(sorted), r)
         ELSE <<r>> \o sorted

RECURSIVE SortAscending(_)
SortAscending(rs) ==
    IF rs = <<>> THEN <<>>
    ELSE InsertAscending(SortAscending(SubSeq(rs, 1, Len(rs) - 1)), rs[Len(rs)])

Reverse(rs) == [i \in 1..Len(rs) |-> rs[Len(rs) + 1 - i]]

sort_ascending_then_reverse(rs) == Reverse(SortAscending(rs))

RECURSIVE sort_by_relevance(_)
sort_by_relevance(rs) ==
    IF rs = <<>> THEN <<>>
    ELSE InsertDescending(sort_by_relevance(SubSeq(rs, 1, Len(rs) - 1)), rs[Len(rs)])

FirstIncomplete(resp) ==
    CHOOSE i \in 1..Len(resp) :
        /\ ~Complete(Items[resp[i]])
        /\ \A j \in 1..(i - 1) : Complete(Items[resp[j]])

(* the body of suggest_city after _make_request has returned resp *)
suggest_city_skip_bad_records(resp) ==
    IF \A i \in 1..Len(resp) : Complete(Items[resp[i]])
    THEN Value(sort_by_relevance([i \in 1..Len(resp) |-> ParseItem(resp, i)]))
    ELSE Value(sort_by_relevance(
                 [i \in 1..(FirstIncomplete(resp) - 1) |-> ParseItem(resp, i)]))

suggest_city_result(resp) ==
    IF \A i \in 1..Len(resp) : Complete(Items[resp[i]])
    THEN Value(sort_by_relevance([i \in 1..Len(resp) |-> ParseItem(resp, i)]))
    ELSE Error("KeyError")

SuggestCityReturn ==
    /\ pc = "returned"
    /\ op = "suggest_city"
    /\ Finish(suggest_city_result(response))

(* results[0] if results else None *)
best_of_last(rs) == IF rs # <<>> THEN rs[Len(rs)] ELSE None

best_of(rs) == IF rs # <<>> THEN rs[1] ELSE None

get_best_match_result(resp) ==
    LET r == suggest_city_result(resp) IN
    IF r.kind = "error" THEN r ELSE Value(best_of(r.value))

GetBestMatchReturn ==
    /\ pc = "returned"
    /\ op = "get_best_match"
    /\ Finish(get_best_match_result(response))

----------------------------------------------------------------------------
(* The city directory scrape *)

(* the ScrapedCity objects of section k of the page: one per item with an  *)
(* anchor                                                                  *)
SectionCities(page, k) ==
    LET sec == Sections[page[k]] IN
    SelectSeq([j \in 1..Len(sec.items) |->
                  [name |-> <<k, j>>, letter |-> sec.title, linked |-> sec.items[j]]],
              LAMBDA c : c.linked)

RECURSIVE PageCities(_, _)
PageCities(page, k) ==
    IF k = 0 THEN <<>> ELSE PageCities(page, k - 1) \o SectionCities(page, k)

(* __scrape_all_cities: a single GET, no retry decorator *)
scrape_all_cities(o) ==
    IF o.kind = "conn" \/ raise_for_status(o) THEN Error("RequestException")
    ELSE IF \E k \in 1..Len(o.body) : "title" \notin DOMAIN Sections[o.body[k]]
    THEN Error("AttributeError")
    ELSE Value(PageCities(o.body, Len(o.body)))

get_cities_by_letter_result(o, letter) ==
    LET r == scrape_all_cities(o) IN
    IF r.kind = "error" THEN r
    ELSE Value(SelectSeq(r.value, LAMBDA c : upper(c.letter) = upper(letter)))

get_unique_city_letters_result(o) ==
    LET r == scrape_all_cities(o) IN
    IF r.kind = "error" THEN r
    ELSE Value({r.value[i].letter : i \in 1..Len(r.value)})

ScrapeGet ==
    /\ pc = "scrape"
    /\ \E o \in ScrapeOutcomes :
         /\ gets' = gets + 1
         /\ last' = o
         /\ ret' = IF op = "get_cities_by_letter"
                   THEN get_cities_by_letter_result(o, arg)
                   ELSE get_unique_city_letters_result(o)
    /\ pc' = "done"
    /\ UNCHANGED <<op, arg, endpoint, sleeps, attempts, response, relVars>>

----------------------------------------------------------------------------
Init ==
    /\ IdlePipeline
    /\ results = <<>>
    /\ rel = <<>>
    /\ seen = {}

Next ==
    \/ get_cities
    \/ get_reachable_cities
    \/ search_trips
    \/ get_search_analytics
    \/ suggest_city
    \/ get_best_match
    \/ get_cities_by_letter
    \/ get_unique_city_letters
    \/ MakeRequestAttempt
    \/ Backoff
    \/ ReturnJson
    \/ SuggestCityReturn
    \/ GetBestMatchReturn
    \/ ScrapeGet

Spec == Init /\ [][Next]_vars

----------------------------------------------------------------------------
(* Claims about SearchResult.relevance, checked under SpecRel *)

BothRead == seen = {1, 2}

SameExcept(field) ==
    \A f \in DOMAIN results[1] : f # field => results[1][f] = results[2][f]

\* C1: for every SearchResult, whatever its score (negative or above 100
\* included), station count and flags, the relevance read is at least 0.0
\* and at most 1.0.
C1_RelevanceInUnitRange ==
    \A i \in seen : 0 <= rel[i] /\ rel[i] <= RelevanceCap

FlipsFlixbus ==
    /\ BothRead /\ SameExcept("is_flixbus_city")
    /\ ~results[1].is_flixbus_city /\ results[2].is_flixbus_city

FlipsTrain ==
    /\ BothRead /\ SameExcept("has_train_station")
    /\ ~results[1].has_train_station /\ results[2].has_train_station

\* C6 as stated: with all other fields fixed, relevance grows by exactly 0.2
\* when is_flixbus_city flips false -> true and by exactly 0.1 when
\* has_train_station flips false -> true, for every score, station count and
\* other flag.
C6_FlipAddsExactBonus ==
    /\ FlipsFlixbus => rel[2] - rel[1] = FlixbusBonus
    /\ FlipsTrain => rel[2] - rel[1] = TrainBonus

\* C6 amended: the flip raises relevance by the bonus (0.2 resp. 0.1) or by
\* what is left below the 1.0 cap, whichever is smaller; so by exactly the
\* bonus whenever the relevance before the flip leaves room for it.
C6_FlipAddsBonusUpToCap ==
    /\ FlipsFlixbus => rel[2] - rel[1] = Min(FlixbusBonus, RelevanceCap - rel[1])
    /\ FlipsTrain => rel[2] - rel[1] = Min(TrainBonus, RelevanceCap - rel[1])

\* a flip from 0.8 to 1.0: the full bonus is added
C6_Witness ==
    /\ FlipsFlixbus
    /\ results[1].score = 50 /\ results[1].stations = 2
    /\ results[1].has_train_station
    /\ rel[1] = 80 /\ rel[2] = 100

\* C8: with the other fields fixed, relevance is non-decreasing in score and
\* in the number of stations, and three or more stations contribute the same
\* as three.
C8_MonotoneAndStationCap ==
    /\ (BothRead /\ SameExcept("score") /\ results[1].score <= results[2].score)
          => rel[1] <= rel[2]
    /\ (BothRead /\ SameExcept("stations")
          /\ results[1].stations <= results[2].stations)
          => /\ rel[1] <= rel[2]
             /\ results[1].stations >= 3 => rel[1] = rel[2]

\* three stations against five, below the 1.0 cap
C8_Witness ==
    /\ BothRead /\ SameExcept("stations")
    /\ results[1].stations = 3 /\ results[2].stations = 5
    /\ results[1].score = 50 /\ rel[1] = 80 /\ rel[2] = 80

----------------------------------------------------------------------------
(* Claims about the request pipeline, checked under Spec *)

MakeRequestOps == RawOps \cup RankOps

Failed(class) == class \in {"transport", "decode"}

Succeeded == attempts # <<>> /\ attempts[Len(attempts)] = "ok"

\* C2: one _make_request call issues GETs one after another until the first
\* attempt that succeeds or until 3 attempts have failed (transport failures
\* and undecodable bodies counting alike); there is one backoff wait between
\* consecutive GETs, so GETs - 1 waits in all, and a call failing twice and
\* succeeding on the third attempt returns that attempt's JSON value after
\* exactly 2 waits.
C2_RetryUntilSuccessOrBudget ==
    op \in MakeRequestOps =>
        /\ gets = Len(attempts)
        /\ gets <= MaxAttempts
        /\ \A i \in 1..(Len(attempts) - 1) : Failed(attempts[i])
        /\ pc = "attempt" => Len(sleeps) = gets
        /\ pc = "wait" => Len(sleeps) = gets - 1 /\ Failed(attempts[gets])
        /\ pc \in {"returned", "done"} =>
              /\ Succeeded \/ gets = MaxAttempts
              /\ Len(sleeps) = gets - 1
        /\ pc = "returned" => Succeeded /\ response = last.body
        /\ (pc = "done" /\ op \in RawOps /\ Succeeded) => ret = Value(last.body)
        /\ (pc = "done" /\ ~Succeeded) => ret.kind = "error"

\* a transport failure, then an undecodable body, then a success
C2_Witness ==
    /\ pc = "done" /\ op = "get_cities"
    /\ attempts = <<"transport", "decode", "ok">>
    /\ gets = 3 /\ Len(sleeps) = 2
    /\ ret = Value([count |-> 1])

\* C3: when all 3 attempts of a _make_request call fail with a transport
\* failure, the caller observes that transport failure itself (not another
\* kind of error), and no fourth attempt is made.
C3_TransportErrorPropagates ==
    (/\ op \in MakeRequestOps /\ pc = "done"
     /\ Len(attempts) = MaxAttempts
     /\ \A i \in 1..MaxAttempts : attempts[i] = "transport")
        => /\ ret = Error(exception_of("transport"))
           /\ gets = MaxAttempts

AfterGet == op \in MakeRequestOps /\ attempts # <<>> /\ last.kind = "http"

\* C4 as stated: every response whose status is outside 200..299 is a failed
\* attempt and never makes the call return a JSON value.
C4_Non2xxIsFailure ==
    (AfterGet /\ ~(200 <= last.status /\ last.status < 300))
        => /\ Failed(attempts[Len(attempts)])
           /\ pc # "returned"
           /\ ret.kind # "value"

\* C4 amended: every response whose status is in 400..599 is a failed
\* attempt and never makes the call return a JSON value, even with a valid
\* JSON body; a response of any other status (1xx and 3xx included) with a
\* valid JSON body is a success and the call returns its value.
C4_ErrorStatusIsFailure ==
    /\ (AfterGet /\ 400 <= last.status /\ last.status < 600)
          => /\ attempts[Len(attempts)] = "transport"
             /\ pc # "returned"
             /\ ret.kind # "value"
    /\ (AfterGet /\ ~(400 <= last.status /\ last.status < 600) /\ last.json)
          => /\ Succeeded
             /\ pc \in {"returned", "done"}
             /\ response = last.body

\* a 404 with a JSON body on the last attempt ends the call in an error
C4_Witness ==
    /\ op = "get_cities" /\ pc = "done"
    /\ last.status = 404 /\ last.json
    /\ gets = MaxAttempts /\ ret.kind = "error"

\* C5: the list suggest_city returns is a permutation of the parsed response
\* records (same length, none dropped or duplicated), ordered by relevance
\* descending, and records of equal relevance keep their response order.
C5_StableDescendingPermutation ==
    (op = "suggest_city" /\ pc = "done" /\ ret.kind = "value") =>
        LET out == ret.value IN
        /\ Len(out) = Len(response)
        /\ {out[k].id : k \in 1..Len(out)} = 1..Len(response)
        /\ \A k \in 1..Len(out) : out[k] = ParseItem(response, out[k].id)
        /\ \A k, m \in 1..Len(out) :
              k < m => /\ relevance(out[k]) >= relevance(out[m])
                       /\ relevance(out[k]) = relevance(out[m])
                             => out[k].id < out[m].id

\* two records of relevance 0.5 around one of relevance 1.0
C5_Witness ==
    /\ op = "suggest_city" /\ pc = "done" /\ ret.kind = "value"
    /\ response = <<2, 3, 1>>
    /\ <<ret.value[1].id, ret.value[2].id, ret.value[3].id>> = <<2, 1, 3>>

\* C7: get_best_match returns the first element of what suggest_city returns
\* for the same response, which is a result of maximal relevance, and returns
\* None, not an error, when that list is empty.
C7_BestMatchIsFirstOrNone ==
    (op = "get_best_match" /\ pc = "done" /\ Succeeded) =>
        LET s == suggest_city_result(response) IN
        /\ s.kind = "error" => ret = s
        /\ (s.kind = "value" /\ s.value = <<>>) => ret = Value(None)
        /\ (s.kind = "value" /\ s.value # <<>>) =>
              /\ ret = Value(s.value[1])
              /\ \A i \in 1..Len(response) :
                    relevance(ret.value) >= relevance(ParseItem(response, i))

\* the better record is second in the response
C7_Witness ==
    /\ op = "get_best_match" /\ pc = "done" /\ ret.kind = "value"
    /\ response = <<1, 3>>
    /\ ret.value = ParseItem(response, 2)

HasIncomplete(resp) == \E i \in 1..Len(resp) : ~Complete(Items[resp[i]])

\* C9: when the autocomplete request succeeds with well-formed JSON in which
\* a record lacks a required field, the error is surfaced without any GET
\* after the successful one and without a partial result list.
C9_ParseErrorNotRetried ==
    (op \in RankOps /\ pc = "done" /\ Succeeded /\ HasIncomplete(response)) =>
        /\ ret.kind = "error"
        /\ ret.error = "KeyError"
        /\ ret.value = <<>>
        /\ gets = Len(attempts)
        /\ \A i \in 1..(Len(attempts) - 1) : Failed(attempts[i])

\* a complete record followed by one without "score", on the first attempt
C9_Witness ==
    /\ op = "suggest_city" /\ pc = "done"
    /\ response = <<1, 4>>
    /\ gets = 1 /\ sleeps = <<>>
    /\ ret = Error("KeyError")

TransportFailure(o) ==
    o.kind = "conn" \/ (o.kind = "http" /\ 400 <= o.status /\ o.status < 600)

SurfacedTransportFailure ==
    pc = "done" /\ ret.kind = "error" /\ TransportFailure(last)

\* C10 as stated: in every public operation that performs a network call,
\* get_cities_by_letter and get_unique_city_letters included, a transport
\* failure is surfaced only after the 3-attempt budget is used up.
C10_EveryOperationRetries ==
    SurfacedTransportFailure => gets = MaxAttempts

\* C10 amended: the operations that go through _make_request surface a
\* transport failure only after 3 attempts; get_cities_by_letter and
\* get_unique_city_letters issue a single GET and surface a transport
\* failure at once, without any wait.
C10_OnlyMakeRequestRetries ==
    /\ (SurfacedTransportFailure /\ op \in MakeRequestOps)
          => gets = MaxAttempts /\ Len(sleeps) = MaxAttempts - 1
    /\ (SurfacedTransportFailure /\ op \in ScrapeOps)
          => gets = 1 /\ sleeps = <<>> /\ ret = Error("RequestException")

\* a 503 on the directory page
C10_Witness ==
    /\ op = "get_cities_by_letter" /\ pc = "done"
    /\ last.kind = "http" /\ last.status = 503
    /\ gets = 1 /\ ret = Error("RequestException")

Max(a, b) == IF a >= b THEN a ELSE b

\* the wait the stated rule min(max(1 * 2^n, 4), 10) gives after n earlier
\* failed attempts
RuleWait(n) == Min(Max(WaitMultiplier * 2 ^ n, WaitMin), WaitMax)

WaitsFollowRule ==
    \A i \in 1..Len(sleeps) :
        /\ sleeps[i] = RuleWait(i - 1)
        /\ WaitMin <= sleeps[i] /\ sleeps[i] <= WaitMax

\* C11 as stated: within one _make_request call every wait follows
\* min(max(1 * 2^n, 4), 10), n counting the failed attempts so far from 0,
\* lies between 4 and 10 units, and the second wait of a call is longer than
\* the first.
C11_WaitsGrow ==
    op \in MakeRequestOps =>
        /\ WaitsFollowRule
        /\ Len(sleeps) >= 2 => sleeps[2] > sleeps[1]

\* C11 amended: every wait follows min(max(1 * 2^n, 4), 10) and lies between
\* 4 and 10 units; the waits never shrink, and within the 3-attempt budget
\* both waits of a call are the 4-unit minimum, so the second wait equals
\* the first.
C11_WaitsAtMinimum ==
    op \in MakeRequestOps =>
        /\ WaitsFollowRule
        /\ \A i, j \in 1..Len(sleeps) : i <= j => sleeps[i] <= sleeps[j]
        /\ Len(sleeps) >= 2 => sleeps[2] = sleeps[1] /\ sleeps[1] = WaitMin

\* a call that has waited twice
C11_Witness ==
    /\ op = "get_cities" /\ pc = "done"
    /\ gets = MaxAttempts
    /\ sleeps = <<4, 4>>

====
